---- MODULE Spec2Model ----
(***************************************************************************)
(* Joke enrichment pipeline (joke_enrichment.py): four metric modules that *)
(* write a block each into a record's `enrichment` mapping, the pipeline   *)
(* that folds the requested modules over a batch, and the two sinks.       *)
(*                                                                         *)
(* Text is a sequence of one-character strings.  A record (a Python dict)  *)
(* is a function from field names to values; its `enrichment` field holds  *)
(* a reference into `heap`, because dict.copy() is shallow and the         *)
(* modules write through that reference.                                   *)
(***************************************************************************)
EXTENDS Integers, Sequences, FiniteSets, TLC

VARIABLES
    jokes,              \* the caller's list of records (load_jokes / create_sample_jokes)
    heap,               \* the `enrichment` dict objects, by reference
    enriched,           \* the list enrich_jokes returned last
    enrichment_types,   \* the names enrich_jokes was called with last
    warnings,           \* the "Warning: Unknown enrichment type" lines of that call
    pc,                 \* position of main
    file,               \* the output file: whether it exists, and its lines
    mongo               \* the collection: its documents, in insertion order

vars == <<jokes, heap, enriched, enrichment_types, warnings, pc, file, mongo>>
pipeVars == <<enriched, enrichment_types, warnings>>
sinkVars == <<pc, file, mongo>>

(***************************************************************************)
(* Bounds of the model.                                                    *)
(***************************************************************************)
MaxSetupWords == 20
MaxPunchlineWords == 12
MaxGap == 2
MaxNames == 2
MaxLines == 2
MaxTextWords == 3

(***************************************************************************)
(* Dicts and text.                                                         *)
(***************************************************************************)
\* dict.get(k, d)
Get(d, k, default) == IF k \in DOMAIN d THEN d[k] ELSE default

\* d[k] = v
Put(d, k, v) == [x \in DOMAIN d \cup {k} |-> IF x = k THEN v ELSE d[x]]

EmptyDict == <<>>

IsSpace(c) == c = " "

\* JSON null, loaded as None: no text is this value (a text holds single characters)
None == <<"None">>

\* str(v), as an f-string formats a field
Format(v) == IF v = None THEN <<"N", "o", "n", "e">> ELSE v

\* f"{setup} {punchline}"
FullText(setup, punchline) == Format(setup) \o <<" ">> \o Format(punchline)

\* str.split(): the maximal runs of non-whitespace characters, in order
Split(text) ==
    LET n == Len(text)
        IsStart(i) == ~IsSpace(text[i]) /\ (i = 1 \/ IsSpace(text[i - 1]))
        IsEnd(i) == ~IsSpace(text[i]) /\ (i = n \/ IsSpace(text[i + 1]))
        starts == SelectSeq([i \in 1..n |-> i], IsStart)
        ends == SelectSeq([i \in 1..n |-> i], IsEnd)
    IN  <<>> \o [k \in 1..Len(starts) |-> SubSeq(text, starts[k], ends[k])]

(***************************************************************************)
(* The shared tail of every module's enrich: bind the record's             *)
(* `enrichment` field (a new dict when absent) and store the block under   *)
(* the module's name.  `r` is the record, `h` the heap.                    *)
(***************************************************************************)
\* Faulty variant: the module binds a new dict holding its block alone.
SetEnrichmentAnew(r, h, name, block) ==
    [joke |-> Put(r, "enrichment", Len(h) + 1),
     heap |-> Append(h, Put(EmptyDict, name, block))]

\* Faulty variant: a module leaves a record that already holds an `enrichment`
\* dict as it is, so only the first module of a list writes its block.
SetEnrichmentOnce(r, h, name, block) ==
    IF "enrichment" \in DOMAIN r
    THEN [joke |-> r, heap |-> h]
    ELSE [joke |-> Put(r, "enrichment", Len(h) + 1),
          heap |-> Append(h, Put(EmptyDict, name, block))]

SetEnrichment(r, h, name, block) ==
    IF "enrichment" \in DOMAIN r
    THEN [joke |-> r,
          heap |-> [h EXCEPT ![r["enrichment"]] = Put(@, name, block)]]
    ELSE [joke |-> Put(r, "enrichment", Len(h) + 1),
          heap |-> Append(h, Put(EmptyDict, name, block))]

(***************************************************************************)
(* JokeLengthClassifier                                                    *)
(***************************************************************************)
ShortThreshold == 15
MediumThreshold == 30

\* Faulty variant: the thresholds are compared with < in place of <=.
LengthCategoryStrict(word_count) ==
    IF word_count < ShortThreshold THEN "short"
    ELSE IF word_count < MediumThreshold THEN "medium"
    ELSE "long"

LengthCategory(word_count) ==
    IF word_count <= ShortThreshold THEN "short"
    ELSE IF word_count <= MediumThreshold THEN "medium"
    ELSE "long"

LengthBlock(r) ==
    LET setup == Get(r, "setup", <<>>)
        punchline == Get(r, "punchline", <<>>)
        full_text == FullText(setup, punchline)
        word_count == Len(Split(full_text))
    IN  [word_count |-> word_count,
         character_count |-> Len(full_text),
         length_category |-> LengthCategory(word_count),
         setup_word_count |-> Len(Split(setup)),
         punchline_word_count |-> Len(Split(punchline))]

(***************************************************************************)
(* Numbers.  A float rounded to p places is kept as the integer number of  *)
(* 10^-p units; round() rounds the quotient half to even.                  *)
(***************************************************************************)
RoundDiv(n, d) ==
    LET q == n \div d
        r == n % d
    IN  IF 2 * r < d THEN q
        ELSE IF 2 * r > d THEN q + 1
        ELSE IF q % 2 = 0 THEN q ELSE q + 1

RECURSIVE SumFrom(_, _)
SumFrom(s, i) == IF i > Len(s) THEN 0 ELSE s[i] + SumFrom(s, i + 1)

Sum(s) == SumFrom(s, 1)

Min(a, b) == IF a <= b THEN a ELSE b

Upper == <<"A","B","C","D","E","F","G","H","I","J","K","L","M",
           "N","O","P","Q","R","S","T","U","V","W","X","Y","Z">>
LowerCase == <<"a","b","c","d","e","f","g","h","i","j","k","l","m",
               "n","o","p","q","r","s","t","u","v","w","x","y","z">>
UpperSet == {Upper[i] : i \in 1..Len(Upper)}

LowerChar(c) ==
    IF c \in UpperSet
    THEN LowerCase[CHOOSE i \in 1..Len(Upper) : Upper[i] = c]
    ELSE c

\* str.lower()
Lower(text) == <<>> \o [i \in 1..Len(text) |-> LowerChar(text[i])]

\* the substrings of text that are len long
Windows(text, len) == {SubSeq(text, i + 1, i + len) : i \in 0..(Len(text) - len)}

(***************************************************************************)
(* SentimentAnalyzer.  TextBlob's default analyzer averages the lexicon    *)
(* scores of the words it knows; the lexicon is cut down to the entries    *)
(* the sample jokes touch, scores in thousandths.                          *)
(***************************************************************************)
Lexicon ==
    << [word |-> <<"d","a","r","k">>, polarity |-> -150, subjectivity |-> 400],
       [word |-> <<"l","i","g","h","t">>, polarity |-> 400, subjectivity |-> 700],
       [word |-> <<"a","f","r","a","i","d">>, polarity |-> -600, subjectivity |-> 900] >>

IsPunct(c) == c \in {".", "!", "?", ","}

\* a token without its trailing punctuation
StripPunct(w) ==
    LET keep == {i \in 1..Len(w) : ~IsPunct(w[i])}
    IN  IF keep = {} THEN <<>>
        ELSE SubSeq(w, 1, CHOOSE i \in keep : \A k \in keep : k <= i)

\* TextBlob(text).sentiment: [polarity, subjectivity], thousandths
Sentiment(text) ==
    LET tokens == Split(Lower(text))
        Known(w) == \E e \in 1..Len(Lexicon) : Lexicon[e].word = StripPunct(w)
        Entry(w) == Lexicon[CHOOSE e \in 1..Len(Lexicon) : Lexicon[e].word = StripPunct(w)]
        hits == SelectSeq(tokens, Known)
        n == Len(hits)
    IN  IF n = 0 THEN [polarity |-> 0, subjectivity |-> 0]
        ELSE [polarity |-> RoundDiv(Sum([i \in 1..n |-> Entry(hits[i]).polarity]), n),
              subjectivity |-> RoundDiv(Sum([i \in 1..n |-> Entry(hits[i]).subjectivity]), n)]

PositiveAbove == 100
NegativeBelow == -100

SentimentCategory(polarity) ==
    IF polarity > PositiveAbove THEN "positive"
    ELSE IF polarity < NegativeBelow THEN "negative"
    ELSE "neutral"

SentimentBlock(r) ==
    LET setup == Get(r, "setup", <<>>)
        punchline == Get(r, "punchline", <<>>)
        s == Sentiment(FullText(setup, punchline))
    IN  [sentiment |-> SentimentCategory(s.polarity),
         polarity |-> s.polarity,
         subjectivity |-> s.subjectivity,
         setup_polarity |-> Sentiment(setup).polarity,
         punchline_polarity |-> Sentiment(punchline).polarity]

(***************************************************************************)
(* KeywordExtractor                                                        *)
(***************************************************************************)
languages ==
    << <<"p","y","t","h","o","n">>   \* python
     , <<"j","a","v","a">>   \* java
     , <<"j","a","v","a","s","c","r","i","p","t">>   \* javascript
     , <<"c","+","+">>   \* c++
     , <<"c","#">>   \* c#
     , <<"p","h","p">>   \* php
     , <<"r","u","b","y">>   \* ruby
     , <<"g","o">>   \* go
     , <<"r","u","s","t">>   \* rust
     , <<"s","w","i","f","t">>   \* swift
     , <<"k","o","t","l","i","n">>   \* kotlin
     , <<"s","c","a","l","a">>   \* scala
     , <<"p","e","r","l">>   \* perl
     , <<"c","o","b","o","l">>   \* cobol
     , <<"a","s","s","e","m","b","l","y">>   \* assembly
     , <<"h","t","m","l">>   \* html
     , <<"c","s","s">>   \* css
     , <<"s","q","l">>   \* sql
     , <<"x","m","l">>   \* xml
     , <<"j","s","o","n">>   \* json
    >>

concepts ==
    << <<"f","u","n","c","t","i","o","n">>   \* function
     , <<"v","a","r","i","a","b","l","e">>   \* variable
     , <<"l","o","o","p">>   \* loop
     , <<"a","r","r","a","y">>   \* array
     , <<"o","b","j","e","c","t">>   \* object
     , <<"c","l","a","s","s">>   \* class
     , <<"m","e","t","h","o","d">>   \* method
     , <<"i","n","h","e","r","i","t","a","n","c","e">>   \* inheritance
     , <<"p","o","l","y","m","o","r","p","h","i","s","m">>   \* polymorphism
     , <<"e","n","c","a","p","s","u","l","a","t","i","o","n">>   \* encapsulation
     , <<"a","b","s","t","r","a","c","t","i","o","n">>   \* abstraction
     , <<"r","e","c","u","r","s","i","o","n">>   \* recursion
     , <<"a","l","g","o","r","i","t","h","m">>   \* algorithm
     , <<"d","a","t","a"," ","s","t","r","u","c","t","u","r","e">>   \* data structure
     , <<"d","a","t","a","b","a","s","e">>   \* database
     , <<"a","p","i">>   \* api
     , <<"f","r","a","m","e","w","o","r","k">>   \* framework
     , <<"l","i","b","r","a","r","y">>   \* library
     , <<"c","o","m","p","i","l","e","r">>   \* compiler
     , <<"i","n","t","e","r","p","r","e","t","e","r">>   \* interpreter
     , <<"d","e","b","u","g">>   \* debug
     , <<"b","u","g">>   \* bug
     , <<"c","o","d","e">>   \* code
     , <<"p","r","o","g","r","a","m">>   \* program
     , <<"s","o","f","t","w","a","r","e">>   \* software
     , <<"h","a","r","d","w","a","r","e">>   \* hardware
     , <<"n","e","t","w","o","r","k">>   \* network
     , <<"s","e","r","v","e","r">>   \* server
     , <<"c","l","i","e","n","t">>   \* client
     , <<"f","r","o","n","t","e","n","d">>   \* frontend
     , <<"b","a","c","k","e","n","d">>   \* backend
     , <<"f","u","l","l","s","t","a","c","k">>   \* fullstack
     , <<"d","e","v","o","p","s">>   \* devops
     , <<"g","i","t">>   \* git
     , <<"v","e","r","s","i","o","n"," ","c","o","n","t","r","o","l">>   \* version control
     , <<"t","e","s","t","i","n","g">>   \* testing
     , <<"d","e","p","l","o","y","m","e","n","t">>   \* deployment
     , <<"m","i","c","r","o","s","e","r","v","i","c","e","s">>   \* microservices
     , <<"d","o","c","k","e","r">>   \* docker
     , <<"k","u","b","e","r","n","e","t","e","s">>   \* kubernetes
     , <<"c","l","o","u","d">>   \* cloud
     , <<"a","w","s">>   \* aws
     , <<"a","z","u","r","e">>   \* azure
     , <<"g","c","p">>   \* gcp
    >>

tools ==
    << <<"i","d","e">>   \* ide
     , <<"e","d","i","t","o","r">>   \* editor
     , <<"v","s","c","o","d","e">>   \* vscode
     , <<"v","i","m">>   \* vim
     , <<"e","m","a","c","s">>   \* emacs
     , <<"e","c","l","i","p","s","e">>   \* eclipse
     , <<"i","n","t","e","l","l","i","j">>   \* intellij
     , <<"g","i","t","h","u","b">>   \* github
     , <<"g","i","t","l","a","b">>   \* gitlab
     , <<"b","i","t","b","u","c","k","e","t">>   \* bitbucket
     , <<"j","i","r","a">>   \* jira
     , <<"c","o","n","f","l","u","e","n","c","e">>   \* confluence
     , <<"s","l","a","c","k">>   \* slack
     , <<"t","e","a","m","s">>   \* teams
     , <<"d","o","c","k","e","r">>   \* docker
     , <<"k","u","b","e","r","n","e","t","e","s">>   \* kubernetes
     , <<"j","e","n","k","i","n","s">>   \* jenkins
     , <<"t","r","a","v","i","s">>   \* travis
     , <<"c","i","r","c","l","e","c","i">>   \* circleci
     , <<"n","p","m">>   \* npm
     , <<"p","i","p">>   \* pip
     , <<"m","a","v","e","n">>   \* maven
     , <<"g","r","a","d","l","e">>   \* gradle
     , <<"w","e","b","p","a","c","k">>   \* webpack
     , <<"b","a","b","e","l">>   \* babel
     , <<"e","s","l","i","n","t">>   \* eslint
     , <<"p","r","e","t","t","i","e","r">>   \* prettier
    >>

TopN == 5

\* how often k occurs in the list s
CountIn(s, k) == Cardinality({i \in 1..Len(s) : s[i] = k})

FirstIndex(s, k) == CHOOSE i \in 1..Len(s) : s[i] = k /\ \A j \in 1..(i - 1) : s[j] # k

\* Counter(s).most_common(n): the n largest counts, equal counts in the
\* order the keys were first inserted
RECURSIVE MostCommonOf(_, _, _)
MostCommonOf(s, keys, n) ==
    IF n = 0 \/ keys = {} THEN <<>>
    ELSE LET best == CHOOSE k \in keys : \A o \in keys \ {k} :
                        \/ CountIn(s, k) > CountIn(s, o)
                        \/ CountIn(s, k) = CountIn(s, o) /\ FirstIndex(s, k) < FirstIndex(s, o)
         IN  <<best>> \o MostCommonOf(s, keys \ {best}, n - 1)

\* Faulty variant: the first n distinct keys in insertion order, the counts ignored.
MostCommonFirstSeen(s, n) ==
    LET keys == {s[i] : i \in 1..Len(s)}
        firsts == SelectSeq([i \in 1..Len(s) |-> i], LAMBDA i : FirstIndex(s, s[i]) = i)
    IN  [j \in 1..Min(n, Cardinality(keys)) |-> s[firsts[j]]]

MostCommon(s, n) == MostCommonOf(s, {s[i] : i \in 1..Len(s)}, n)

\* found_keywords[category]: the category's keywords that occur in the text
\* (`keyword in full_text`: the keyword is one of the text's substrings of
\* its length)
FoundIn(keywords, full_text) ==
    LET longest == CHOOSE n \in {Len(keywords[i]) : i \in 1..Len(keywords)} :
                       \A i \in 1..Len(keywords) : Len(keywords[i]) <= n
        windows == <<>> \o [len \in 1..longest |-> Windows(full_text, len)]
        Found(k) == k \in windows[Len(k)]
    IN  SelectSeq(keywords, Found)

\* all_keywords: languages, then concepts, then tools
AllKeywords(found) == found.languages \o found.concepts \o found.tools

KeywordBlock(r) ==
    LET setup == Lower(Get(r, "setup", <<>>))
        punchline == Lower(Get(r, "punchline", <<>>))
        full_text == FullText(setup, punchline)
        found == [languages |-> FoundIn(languages, full_text),
                  concepts |-> FoundIn(concepts, full_text),
                  tools |-> FoundIn(tools, full_text)]
        all_keywords == AllKeywords(found)
        words == Len(Split(full_text))
    IN  [keywords_by_category |-> found,
         top_keywords |-> MostCommon(all_keywords, TopN),
         total_keywords |-> Len(all_keywords),
         keyword_density |-> IF words > 0 THEN RoundDiv(1000 * Len(all_keywords), words) ELSE 0]

(***************************************************************************)
(* ReadabilityScorer                                                       *)
(***************************************************************************)
IsVowel(c) == c \in {"a", "e", "i", "o", "u", "y"}

count_syllables(word0) ==
    LET word == Lower(word0)
        groups == Cardinality({i \in 1..Len(word) :
                                 IsVowel(word[i]) /\ (i = 1 \/ ~IsVowel(word[i - 1]))})
        count == IF Len(word) > 0 /\ word[Len(word)] = "e" THEN groups - 1 ELSE groups
    IN  IF count > 1 THEN count ELSE 1

IsStop(c) == c \in {".", "!", "?"}

\* len(re.split(r"[.!?]+", text)): one more than the runs of . ! ?
SentenceCount(text) ==
    1 + Cardinality({i \in 1..Len(text) : IsStop(text[i]) /\ (i = 1 \/ ~IsStop(text[i - 1]))})

\* grade level, hundredths
calculate_flesch_kincaid(text) ==
    LET sentences == SentenceCount(text)
        tokens == Split(text)
        words == Len(tokens)
        syllables == Sum([i \in 1..words |-> count_syllables(tokens[i])])
    IN  IF sentences = 0 \/ words = 0 THEN 0
        ELSE RoundDiv(39 * words * words + 1180 * syllables * sentences
                        - 1559 * sentences * words,
                      sentences * words)

EasyGrade == 600
ModerateGrade == 1000

categorize_readability(grade_level) ==
    IF grade_level <= EasyGrade THEN "easy"
    ELSE IF grade_level <= ModerateGrade THEN "moderate"
    ELSE "difficult"

ReadabilityBlock(r) ==
    LET setup == Get(r, "setup", <<>>)
        punchline == Get(r, "punchline", <<>>)
        full_text == FullText(setup, punchline)
        flesch_kincaid == calculate_flesch_kincaid(full_text)
        words == Split(full_text)
        word_count == Len(words)
    IN  [flesch_kincaid_grade |-> flesch_kincaid,
         word_count |-> word_count,
         sentence_count |-> SentenceCount(full_text),
         average_word_length |->
             IF word_count > 0
             THEN RoundDiv(100 * Sum([i \in 1..word_count |-> Len(words[i])]), word_count)
             ELSE 0,
         readability_level |-> categorize_readability(flesch_kincaid)]

(***************************************************************************)
(* The registry (JokeEnrichmentPipeline.__init__) and each module's name.  *)
(***************************************************************************)
ModuleNames == {"sentiment", "keywords", "readability", "length"}

ModuleKey(m) ==
    CASE m = "sentiment" -> "sentiment_analysis"
      [] m = "keywords" -> "keyword_extraction"
      [] m = "readability" -> "readability_scoring"
      [] m = "length" -> "length_classification"

ModuleBlock(m, r) ==
    CASE m = "sentiment" -> SentimentBlock(r)
      [] m = "keywords" -> KeywordBlock(r)
      [] m = "readability" -> ReadabilityBlock(r)
      [] m = "length" -> LengthBlock(r)

\* Whether enrich raises on the record: a method of str called on None
\* (.lower(), .split()) or TextBlob(None); the readability module only
\* formats the fields.
ModuleRaises(m, r) ==
    LET bad == Get(r, "setup", <<>>) = None \/ Get(r, "punchline", <<>>) = None
    IN  CASE m = "sentiment" -> bad
          [] m = "keywords" -> bad
          [] m = "readability" -> FALSE
          [] m = "length" -> bad

\* Faulty variant: the length module counts the blocks the record already carries
\* into its word count.
EnrichCounting(m, r, h) ==
    LET block == ModuleBlock(m, r)
        held == IF "enrichment" \in DOMAIN r
                THEN Cardinality(DOMAIN h[r["enrichment"]]) ELSE 0
    IN  SetEnrichment(r, h, ModuleKey(m),
                      IF m = "length"
                      THEN [block EXCEPT !.word_count = @ + held]
                      ELSE block)

\* self.enrichers[m].enrich(r)
Enrich(m, r, h) == SetEnrichment(r, h, ModuleKey(m), ModuleBlock(m, r))

(***************************************************************************)
(* A module applied directly to the first record of `jokes`.               *)
(***************************************************************************)
ApplyModule(m) ==
    /\ Len(jokes) >= 1
    /\ ~ModuleRaises(m, jokes[1])
    /\ \E res \in {Enrich(m, jokes[1], heap)} :
           /\ jokes' = [jokes EXCEPT ![1] = res.joke]
           /\ heap' = res.heap
    /\ UNCHANGED <<pipeVars, sinkVars>>

(***************************************************************************)
(* JokeEnrichmentPipeline.enrich_jokes                                     *)
(***************************************************************************)
\* Faulty variant: the registry is indexed without the membership test, and an unknown
\* name raises KeyError.
RaiseUnknown(st, name) == [st EXCEPT !.raised = TRUE]

\* print(f"Warning: Unknown enrichment type '{enrichment_type}'")
WarnUnknown(st, name) == [st EXCEPT !.warnings = Append(@, name)]

\* the inner loop over enrichment_types for one record: st is
\* [joke, heap, warnings, raised]
RECURSIVE ApplyTypes(_, _, _)
ApplyTypes(types, i, st) ==
    IF i > Len(types) \/ st.raised THEN st
    ELSE IF types[i] \in ModuleNames
    THEN IF ModuleRaises(types[i], st.joke)
         THEN [st EXCEPT !.raised = TRUE]
         ELSE LET res == Enrich(types[i], st.joke, st.heap)
              IN  ApplyTypes(types, i + 1,
                             [st EXCEPT !.joke = res.joke, !.heap = res.heap])
    ELSE ApplyTypes(types, i + 1, WarnUnknown(st, types[i]))

\* Faulty variant: the copy is rebuilt from the fields the pipeline knows.
CopyKnownFields(r) ==
    [k \in DOMAIN r \cap {"joke_id", "setup", "punchline", "enrichment"} |-> r[k]]

\* joke.copy(): a new dict with the same values, the `enrichment` reference included
Copy(r) == r

\* the outer loop: acc is [enriched, heap, warnings, raised]
RECURSIVE EnrichFrom(_, _, _, _)
EnrichFrom(js, types, i, acc) ==
    IF i > Len(js) \/ acc.raised THEN acc
    ELSE LET st == ApplyTypes(types, 1,
                              [joke |-> Copy(js[i]), heap |-> acc.heap,
                               warnings |-> acc.warnings, raised |-> FALSE])
         IN  EnrichFrom(js, types, i + 1,
                        [enriched |-> IF st.raised THEN acc.enriched
                                      ELSE Append(acc.enriched, st.joke),
                         heap |-> st.heap,
                         warnings |-> st.warnings,
                         raised |-> st.raised])

enrich_jokes(js, types, h) ==
    EnrichFrom(js, types, 1,
               [enriched |-> <<>>, heap |-> h, warnings |-> <<>>, raised |-> FALSE])

\* the dicts the caller's records hold; those of an earlier result are dropped
\* with the result
RefsOf(js) == {js[i]["enrichment"] : i \in {k \in 1..Len(js) : "enrichment" \in DOMAIN js[k]}}

LiveHeap(js, h) ==
    LET refs == RefsOf(js)
    IN  IF refs = {} THEN <<>>
        ELSE SubSeq(h, 1, CHOOSE a \in refs : \A b \in refs : b <= a)

\* enriched = pipeline.enrich_jokes(jokes, types); an exception leaves the
\* caller without a result
EnrichJokes(types) ==
    /\ pc = "idle"
    /\ \E res \in {enrich_jokes(jokes, types, LiveHeap(jokes, heap))} :
           /\ pc' = IF res.raised THEN "raised" ELSE "returned"
           /\ enriched' = IF res.raised THEN <<>> ELSE res.enriched
           /\ heap' = res.heap
           /\ warnings' = res.warnings
    /\ enrichment_types' = types
    /\ UNCHANGED <<jokes, file, mongo>>

\* no output file yet
NoFile == [exists |-> FALSE, lines |-> <<>>]

\* nothing called yet, both sinks empty
IdleInit ==
    /\ enriched = <<>>
    /\ enrichment_types = <<>>
    /\ warnings = <<>>
    /\ pc = "idle"
    /\ file = NoFile
    /\ mongo = <<>>

(***************************************************************************)
(* The sample jokes of create_sample_jokes.                                *)
(***************************************************************************)
\* Why do programmers prefer dark mode?
Setup1 ==
    <<"W","h","y"," ","d","o"," ","p","r","o","g","r","a","m","m","e","r","s"," ","p","r",
      "e","f","e","r"," ","d","a","r","k"," ","m","o","d","e","?">>

\* Because light attracts bugs!
Punchline1 ==
    <<"B","e","c","a","u","s","e"," ","l","i","g","h","t"," ","a","t","t","r","a","c","t",
      "s"," ","b","u","g","s","!">>

\* A programmer had a problem. He decided to use Java.
Setup2 ==
    <<"A"," ","p","r","o","g","r","a","m","m","e","r"," ","h","a","d"," ","a"," ","p","r",
      "o","b","l","e","m","."," ","H","e"," ","d","e","c","i","d","e","d"," ","t","o"," ",
      "u","s","e"," ","J","a","v","a",".">>

\* He now has a ProblemFactory.
Punchline2 ==
    <<"H","e"," ","n","o","w"," ","h","a","s"," ","a"," ","P","r","o","b","l","e","m","F",
      "a","c","t","o","r","y",".">>

\* Why don't bachelors like Git?
Setup3 ==
    <<"W","h","y"," ","d","o","n","'","t"," ","b","a","c","h","e","l","o","r","s"," ","l",
      "i","k","e"," ","G","i","t","?">>

\* Because they are afraid to commit.
Punchline3 ==
    <<"B","e","c","a","u","s","e"," ","t","h","e","y"," ","a","r","e"," ","a","f","r","a",
      "i","d"," ","t","o"," ","c","o","m","m","i","t",".">>

SampleJokes ==
    << [joke_id |-> "test_001", setup |-> Setup1, punchline |-> Punchline1,
        source_url |-> "https://example.com"],
       [joke_id |-> "test_002", setup |-> Setup2, punchline |-> Punchline2,
        source_url |-> "https://example.com"],
       [joke_id |-> "test_003", setup |-> Setup3, punchline |-> Punchline3,
        source_url |-> "https://example.com"] >>

(***************************************************************************)
(* The records a caller hands to the pipeline: a sample joke as it is, one *)
(* that comes from an earlier run and carries that run's sentiment block,  *)
(* and one with no field but its id.  `cell` is the content of the         *)
(* record's `enrichment` dict, when it has one.                            *)
(***************************************************************************)
Pool ==
    << [joke |-> SampleJokes[1], has_cell |-> FALSE, cell |-> EmptyDict],
       [joke |-> SampleJokes[2], has_cell |-> TRUE,
        cell |-> Put(EmptyDict, "sentiment_analysis", SentimentBlock(SampleJokes[2]))],
       [joke |-> [joke_id |-> "test_004"], has_cell |-> FALSE, cell |-> EmptyDict] >>

\* the sequences over S of length at most n
SeqsUpTo(S, n) == UNION {[1..k -> S] : k \in 0..n}

\* the sub-lists of 1..n
SubLists(n) ==
    {idx \in SeqsUpTo(1..n, n) : \A j \in 1..(Len(idx) - 1) : idx[j] < idx[j + 1]}

HasCell(pool, i) == pool[i].has_cell

\* the list of the pool's records idx names, each with a dict of its own
BatchJokes(pool, idx) ==
    [j \in 1..Len(idx) |->
        IF HasCell(pool, idx[j])
        THEN Put(pool[idx[j]].joke, "enrichment",
                 Cardinality({k \in 1..j : HasCell(pool, idx[k])}))
        ELSE pool[idx[j]].joke]

BatchHeap(pool, idx) ==
    LET with == SelectSeq(idx, LAMBDA i : HasCell(pool, i))
    IN  [j \in 1..Len(with) |-> pool[with[j]].cell]

\* the caller drops the result before it calls again
Release ==
    /\ pc \in {"returned", "raised"}
    /\ pc' = "idle"
    /\ enriched' = <<>>
    /\ enrichment_types' = <<>>
    /\ warnings' = <<>>
    /\ heap' = LiveHeap(jokes, heap)
    /\ UNCHANGED <<jokes, file, mongo>>

Names == ModuleNames \cup {"foo"}

Init ==
    /\ \E idx \in SubLists(Len(Pool)) :
          /\ jokes = BatchJokes(Pool, idx)
          /\ heap = BatchHeap(Pool, idx)
    /\ IdleInit

Next ==
    \/ \E types \in SeqsUpTo(Names, MaxNames) : EnrichJokes(types)
    \/ Release

Spec == Init /\ [][Next]_vars

(***************************************************************************)
(* Properties of enrich_jokes.                                             *)
(***************************************************************************)
IsModule(name) == name \in ModuleNames

\* the keys of a record's `enrichment` mapping in heap h, none when it has no mapping
KeysOf(r, h) == IF "enrichment" \in DOMAIN r THEN DOMAIN h[r["enrichment"]] ELSE {}

PassThrough(r) == DOMAIN r \ {"enrichment"}

\* C1: enrich_jokes does not mutate its input: after the call every input
\* record, the contents of its `enrichment` mapping included, is what it was
\* before the call.
C1_InputNotMutated ==
    [][(pc = "idle" /\ pc' = "returned") =>
          /\ jokes' = jokes
          /\ \A i \in 1..Len(jokes) :
                "enrichment" \in DOMAIN jokes[i] =>
                    heap'[jokes[i]["enrichment"]] = heap[jokes[i]["enrichment"]]]_vars

\* C3: an unknown name is not fatal: the call returns, and what it returns and
\* leaves in the heap is what the same call with the unknown names removed
\* from the list returns; each output record's `enrichment` holds the keys it
\* held before and the blocks of the valid requested names.
C3_UnknownNamesIgnored ==
    [][pc = "idle" /\ pc' # "idle" =>
          LET valid == SelectSeq(enrichment_types', IsModule)
              ref == enrich_jokes(jokes, valid, LiveHeap(jokes, heap))
          IN  /\ pc' = "returned"
              /\ enriched' = ref.enriched
              /\ heap' = ref.heap
              /\ \A i \in 1..Len(enriched') :
                    /\ KeysOf(enriched'[i], heap') =
                          KeysOf(jokes[i], heap)
                             \cup {ModuleKey(valid[j]) : j \in 1..Len(valid)}
                    /\ \A j \in 1..Len(valid) :
                          heap'[enriched'[i]["enrichment"]][ModuleKey(valid[j])]
                             = ModuleBlock(valid[j], jokes[i])]_vars

\* ["foo", "length"] returned the length_classification block
C3_Witness ==
    /\ pc = "returned"
    /\ enrichment_types = <<"foo", "length">>
    /\ Len(enriched) >= 1
    /\ KeysOf(enriched[1], heap) = {"length_classification"}
    /\ warnings # <<>>

\* C5: enrich_jokes returns as many records as it was given, in the same
\* order, each with every field other than `enrichment` as it was given.
C5_FieldsPassThrough ==
    pc = "returned" =>
        /\ Len(enriched) = Len(jokes)
        /\ \A i \in 1..Len(jokes) :
              /\ PassThrough(enriched[i]) = PassThrough(jokes[i])
              /\ \A k \in PassThrough(jokes[i]) : enriched[i][k] = jokes[i][k]

\* a batch of several records, source_url among their fields, all modules'
\* keys gained by a record
C5_Witness ==
    /\ pc = "returned"
    /\ Len(enriched) >= 2
    /\ "source_url" \in DOMAIN enriched[1]
    /\ "enrichment" \in DOMAIN enriched[1]
    /\ "source_url" \notin DOMAIN enriched[Len(enriched)]
    /\ Len(enrichment_types) = MaxNames

\* C10: enrich_jokes prints one warning for each requested name that is not
\* in the registry, whatever the number of records.
C10_OneWarningPerUnknownName ==
    pc = "returned" =>
        Len(warnings) = Len(SelectSeq(enrichment_types, LAMBDA n : ~IsModule(n)))

\* the valid names of a list
ValidNames(types) == {types[i] : i \in {k \in 1..Len(types) : IsModule(types[k])}}

\* the `enrichment` mapping of a record, or its absence
MappingOf(r, h) ==
    IF "enrichment" \in DOMAIN r
    THEN [has |-> TRUE, mapping |-> h[r["enrichment"]]]
    ELSE [has |-> FALSE, mapping |-> EmptyDict]

\* the mappings of a result, record by record
MappingsOf(res) == [i \in 1..Len(res.enriched) |-> MappingOf(res.enriched[i], res.heap)]

\* C11: when enrich_jokes returns, every list with the same set of valid
\* names (permuted, repeated, with or without unknown names) gives each
\* record the same `enrichment` mapping on the same input, and the mapping of
\* each record is the one the record gets when it is enriched alone: it
\* depends on neither the other records of the batch nor the calls before.
C11_OrderIndependent ==
    [][(pc = "idle" /\ pc' = "returned") =>
          \A now \in {[enriched |-> enriched', heap |-> heap']} :
              /\ \A types \in SeqsUpTo(Names, MaxNames) :
                     ValidNames(types) = ValidNames(enrichment_types') =>
                         \A res \in {enrich_jokes(jokes, types, LiveHeap(jokes, heap))} :
                             /\ ~res.raised
                             /\ MappingsOf(res) = MappingsOf(now)
              /\ \A i \in 1..Len(jokes) :
                     \A one \in {enrich_jokes(<<jokes[i]>>, enrichment_types',
                                              LiveHeap(jokes, heap))} :
                         /\ ~one.raised
                         /\ MappingsOf(one)[1] = MappingsOf(now)[i]]_vars

\* a batch of two records enriched with two different modules, one of the
\* input records holding blocks of more than one call
C11_Witness ==
    /\ pc = "returned"
    /\ Len(enriched) = 2
    /\ Len(enrichment_types) = 2
    /\ Cardinality(ValidNames(enrichment_types)) = 2
    /\ \A i \in 1..2 : {ModuleKey(m) : m \in ValidNames(enrichment_types)} \subseteq KeysOf(enriched[i], heap)
    /\ \E i \in 1..2 : Cardinality(KeysOf(jokes[i], heap)) >= 3

(***************************************************************************)
(* Modules applied to one record, in any order and any number of times.    *)
(* The record is a sample joke or one with no text, and starts without an  *)
(* `enrichment`, with an empty one, with one that holds a foreign key, or  *)
(* with the sentiment block of an earlier run.                             *)
(***************************************************************************)
ModuleJokes == SampleJokes \o << [joke_id |-> "test_004"] >>

StartCells(r) ==
    { [has_cell |-> FALSE, cell |-> EmptyDict],
      [has_cell |-> TRUE, cell |-> EmptyDict],
      [has_cell |-> TRUE, cell |-> Put(EmptyDict, "custom", [note |-> "kept"])],
      [has_cell |-> TRUE, cell |-> Put(EmptyDict, "sentiment_analysis", SentimentBlock(r))] }

InitModule ==
    /\ \E i \in 1..Len(ModuleJokes) : \E c \in StartCells(ModuleJokes[i]) :
          LET one == << [joke |-> ModuleJokes[i], has_cell |-> c.has_cell, cell |-> c.cell] >>
          IN  /\ jokes = BatchJokes(one, <<1>>)
              /\ heap = BatchHeap(one, <<1>>)
    /\ IdleInit

NextModule == \E m \in ModuleNames : ApplyModule(m)

SpecModule == InitModule /\ [][NextModule]_vars

ModuleKeys == {ModuleKey(m) : m \in ModuleNames}

\* the record's text fields alone
Bare(r) == [k \in DOMAIN r \cap {"setup", "punchline"} |-> r[k]]

\* C2: applying a module removes no key of the record's `enrichment` mapping
\* and changes at most the value under the module's own key, which then
\* holds the module's block; every other key keeps its value.
C2_NamespaceKept ==
    [][\E m \in ModuleNames :
          LET before == IF "enrichment" \in DOMAIN jokes[1]
                        THEN heap[jokes[1]["enrichment"]] ELSE EmptyDict
              after == heap'[jokes'[1]["enrichment"]]
          IN  /\ DOMAIN after = DOMAIN before \cup {ModuleKey(m)}
              /\ after[ModuleKey(m)] = ModuleBlock(m, jokes[1])
              /\ \A k \in DOMAIN before \ {ModuleKey(m)} : after[k] = before[k]]_vars

\* a foreign key and three module blocks side by side
C2_Witness ==
    /\ "enrichment" \in DOMAIN jokes[1]
    /\ "custom" \in KeysOf(jokes[1], heap)
    /\ Cardinality(KeysOf(jokes[1], heap) \cap ModuleKeys) >= 3

\* C8: a module applied again leaves its block as its first application made
\* it, and the block is the one the module computes from the record's setup
\* and punchline alone, whatever the record's `enrichment` holds.
C8_ModuleIdempotent ==
    [][\A m \in ModuleNames :
          ModuleKey(m) \in KeysOf(jokes'[1], heap') =>
              LET after == heap'[jokes'[1]["enrichment"]][ModuleKey(m)]
              IN  /\ after = ModuleBlock(m, Bare(jokes'[1]))
                  /\ ModuleKey(m) \in KeysOf(jokes[1], heap) =>
                        after = heap[jokes[1]["enrichment"]][ModuleKey(m)]]_vars

\* every module has been applied to a record that carried an earlier run's
\* sentiment block or a foreign key
C8_Witness ==
    /\ "enrichment" \in DOMAIN jokes[1]
    /\ ModuleKeys \subseteq KeysOf(jokes[1], heap)
    /\ "custom" \in KeysOf(jokes[1], heap)
    /\ "setup" \in DOMAIN jokes[1]

(***************************************************************************)
(* Length classification over records of every word count.                 *)
(***************************************************************************)
Word == <<"a", "b">>

\* n copies of Word, each followed by `gap` spaces
RECURSIVE Spaces(_)
Spaces(n) == IF n = 0 THEN <<>> ELSE <<" ">> \o Spaces(n - 1)

RECURSIVE WordsText(_, _)
WordsText(n, gap) == IF n = 0 THEN <<>> ELSE Word \o Spaces(gap) \o WordsText(n - 1, gap)

InitLength ==
    /\ \E n \in 0..MaxSetupWords, k \in 0..MaxPunchlineWords, gap \in 1..MaxGap :
          jokes = << [joke_id |-> "len", setup |-> WordsText(n, gap),
                      punchline |-> WordsText(k, gap)] >>
    /\ heap = <<>>
    /\ IdleInit

NextLength == ApplyModule("length")

SpecLength == InitLength /\ [][NextLength]_vars

\* the whitespace-separated tokens of a text, counted at their last characters
TokenCount(text) ==
    Cardinality({i \in 1..Len(text) :
                    text[i] # " " /\ (i = Len(text) \/ text[i + 1] = " ")})

\* C6: word_count is the number of whitespace-separated tokens of
\* "{setup} {punchline}", and length_category is "short" exactly when it is at
\* most 15, "medium" exactly from 16 to 30, "long" exactly from 31 on.
C6_LengthBoundaries ==
    "enrichment" \in DOMAIN jokes[1] =>
        LET block == heap[jokes[1]["enrichment"]]["length_classification"]
            n == TokenCount(jokes[1]["setup"] \o <<" ">> \o jokes[1]["punchline"])
        IN  /\ block.word_count = n
            /\ block.length_category \in {"short", "medium", "long"}
            /\ block.length_category = "short" <=> n <= 15
            /\ block.length_category = "medium" <=> (16 <= n /\ n <= 30)
            /\ block.length_category = "long" <=> n >= 31

\* a record of 31 words has been classified
C6_Witness ==
    /\ "enrichment" \in DOMAIN jokes[1]
    /\ heap[jokes[1]["enrichment"]]["length_classification"].word_count = 31
    /\ heap[jokes[1]["enrichment"]]["length_classification"].length_category = "long"

(***************************************************************************)
(* Keyword extraction over texts made of words that hold keywords: some    *)
(* hold several (javascript, github, debug, algorithm), two are in two     *)
(* categories (docker, kubernetes), one is capitalised.                    *)
(***************************************************************************)
KeywordWords ==
    << <<"d","o","c","k","e","r">>   \* docker
     , <<"k","u","b","e","r","n","e","t","e","s">>   \* kubernetes
     , <<"j","a","v","a","s","c","r","i","p","t">>   \* javascript
     , <<"g","i","t","h","u","b">>   \* github
     , <<"d","e","b","u","g">>   \* debug
     , <<"P","y","t","h","o","n">>   \* Python
     , <<"a","l","g","o","r","i","t","h","m">>   \* algorithm
     , <<"v","i","m">>   \* vim
    >>

\* debug vim
KeywordPunchline ==
    <<"d","e","b","u","g"," ","v","i","m">>

\* " ".join(words)
RECURSIVE JoinFrom(_, _)
JoinFrom(ws, i) ==
    IF i > Len(ws) THEN <<>>
    ELSE IF i = Len(ws) THEN ws[i]
    ELSE ws[i] \o <<" ">> \o JoinFrom(ws, i + 1)

InitKeywords ==
    /\ \E ws \in SeqsUpTo(1..Len(KeywordWords), MaxTextWords) :
       \E punchline \in {<<>>, KeywordPunchline} :
          jokes = << [joke_id |-> "kw",
                      setup |-> JoinFrom([i \in 1..Len(ws) |-> KeywordWords[ws[i]]], 1),
                      punchline |-> punchline] >>
    /\ heap = <<>>
    /\ IdleInit

NextKeywords == ApplyModule("keywords")

SpecKeywords == InitKeywords /\ [][NextKeywords]_vars

Occurrences(list, k) == Cardinality({i \in 1..Len(list) : list[i] = k})

FirstSeen(list, k) == CHOOSE i \in 1..Len(list) : list[i] = k /\ \A j \in 1..(i - 1) : list[j] # k

\* x ranks before y: more frequent, or as frequent and seen first
RanksBefore(list, x, y) ==
    \/ Occurrences(list, x) > Occurrences(list, y)
    \/ Occurrences(list, x) = Occurrences(list, y) /\ FirstSeen(list, x) < FirstSeen(list, y)

\* the items of list are items of vocabulary, in its order, none twice
InVocabularyOrder(list, vocabulary) ==
    LET At(k) == CHOOSE p \in 1..Len(vocabulary) : vocabulary[p] = k
    IN  /\ \A i \in 1..Len(list) : \E p \in 1..Len(vocabulary) : vocabulary[p] = list[i]
        /\ \A i \in 1..(Len(list) - 1) : At(list[i]) < At(list[i + 1])

Docker == <<"d", "o", "c", "k", "e", "r">>
Kubernetes == <<"k", "u", "b", "e", "r", "n", "e", "t", "e", "s">>

\* C7: top_keywords has at most 5 entries, none twice; it is the 5 most
\* frequent entries of the aggregated list (languages, then concepts, then
\* tools, each in vocabulary order), equal frequencies in the order of first
\* occurrence in that list; docker and kubernetes, found in two categories,
\* have frequency 2 and rank before every keyword found in one.
C7_TopKeywords ==
    "enrichment" \in DOMAIN jokes[1] =>
        LET block == heap[jokes[1]["enrichment"]]["keyword_extraction"]
            found == block.keywords_by_category
            all == found.languages \o found.concepts \o found.tools
            top == block.top_keywords
            distinct == {all[i] : i \in 1..Len(all)}
        IN  /\ InVocabularyOrder(found.languages, languages)
            /\ InVocabularyOrder(found.concepts, concepts)
            /\ InVocabularyOrder(found.tools, tools)
            /\ Len(top) <= 5
            /\ Len(top) = Min(5, Cardinality(distinct))
            /\ \A i \in 1..Len(top) : top[i] \in distinct
            /\ \A i, j \in 1..Len(top) : i < j => RanksBefore(all, top[i], top[j])
            /\ \A i \in 1..Len(top) :
                  \A y \in distinct \ {top[j] : j \in 1..Len(top)} :
                      RanksBefore(all, top[i], y)
            /\ \A k \in distinct :
                  Occurrences(all, k) = IF k \in {Docker, Kubernetes} THEN 2 ELSE 1
            /\ Docker \in distinct => top[1] = Docker

\* docker leads five keywords, and a keyword as frequent as the fifth is left out
C7_Witness ==
    /\ "enrichment" \in DOMAIN jokes[1]
    /\ LET block == heap[jokes[1]["enrichment"]]["keyword_extraction"]
       IN  /\ Len(block.top_keywords) = 5
           /\ block.top_keywords[1] = Docker
           /\ block.top_keywords[2] = Kubernetes
           /\ block.total_keywords >= 8

(***************************************************************************)
(* main: load_jokes, enrich_jokes, save_enriched_jokes.                    *)
(***************************************************************************)
\* the records an input file may hold, one per line: two sample jokes, a
\* record with the first one's joke_id and no source_url, a record that
\* comes from an earlier run, one without joke_id, and one whose setup is
\* null
InputPool ==
    << [joke |-> SampleJokes[1], has_cell |-> FALSE, cell |-> EmptyDict],
       [joke |-> [joke_id |-> "test_001", setup |-> Setup3, punchline |-> Punchline3],
        has_cell |-> FALSE, cell |-> EmptyDict],
       [joke |-> SampleJokes[2], has_cell |-> TRUE,
        cell |-> Put(EmptyDict, "sentiment_analysis", SentimentBlock(SampleJokes[2]))],
       [joke |-> [setup |-> Setup3, punchline |-> Punchline3],
        has_cell |-> FALSE, cell |-> EmptyDict],
       [joke |-> [joke_id |-> "test_005", setup |-> None, punchline |-> Punchline1],
        has_cell |-> FALSE, cell |-> EmptyDict] >>

\* jokes = pipeline.load_jokes(args.input_file): the file is missing, or a
\* line of it is not JSON, or every line is loaded
LoadJokes ==
    /\ pc = "start"
    /\ \/ /\ pc' = "exit1"
          /\ UNCHANGED <<jokes, heap>>
       \/ \E idx \in SeqsUpTo(1..Len(InputPool), MaxLines) :
             /\ jokes' = BatchJokes(InputPool, idx)
             /\ heap' = BatchHeap(InputPool, idx)
             /\ pc' = "loaded"
    /\ UNCHANGED <<pipeVars, file, mongo>>

\* args.enrichment: argparse admits registry names only, at least one
CliTypes == SeqsUpTo(ModuleNames, MaxNames) \ {<<>>}

\* enriched_jokes = pipeline.enrich_jokes(jokes, args.enrichment); an
\* exception is not caught and ends the process
EnrichStep ==
    /\ pc = "loaded"
    /\ \E types \in CliTypes :
       \E res \in {enrich_jokes(jokes, types, heap)} :
           /\ enrichment_types' = types
           /\ pc' = IF res.raised THEN "crashed" ELSE "enriched"
           /\ enriched' = IF res.raised THEN <<>> ELSE res.enriched
           /\ heap' = res.heap
           /\ warnings' = res.warnings
    /\ UNCHANGED <<jokes, file, mongo>>

\* json.dumps(joke): the record with its `enrichment` mapping written out
Doc(r, h) ==
    IF "enrichment" \in DOMAIN r
    THEN [k \in DOMAIN r |-> IF k = "enrichment" THEN h[r[k]] ELSE r[k]]
    ELSE r

\* save_enriched_jokes(..., "file"): open(output_file, "w") fails and leaves
\* the file as it was, or truncates it; then k lines are written, and unless
\* they are all of them the next write fails
SaveFile ==
    /\ pc = "enriched"
    /\ \/ /\ pc' = "exit1"
          /\ file' = file
       \/ \E k \in 0..Len(enriched) :
             /\ file' = [exists |-> TRUE,
                         lines |-> [i \in 1..k |-> Doc(enriched[i], heap)]]
             /\ pc' = IF k = Len(enriched) THEN "done" ELSE "exit1"
    /\ UNCHANGED <<jokes, heap, pipeVars, mongo>>

\* {"$set": doc} on a stored document: the fields of doc are set, the others stay
SetFields(stored, doc) ==
    [k \in DOMAIN stored \cup DOMAIN doc |-> IF k \in DOMAIN doc THEN doc[k] ELSE stored[k]]

\* collection.update_one({"joke_id": id}, {"$set": doc}, upsert=True): the first
\* document with that joke_id is updated, or doc is inserted (the _id the
\* store adds is left out)
UpdateOne(coll, doc) ==
    LET hits == {i \in 1..Len(coll) : coll[i]["joke_id"] = doc["joke_id"]}
    IN  IF hits = {} THEN Append(coll, doc)
        ELSE LET i == CHOOSE x \in hits : \A y \in hits : x <= y
             IN  [coll EXCEPT ![i] = SetFields(@, doc)]

\* the loop of update_one calls over the first k records
RECURSIVE UpdateMany(_, _, _, _)
UpdateMany(coll, js, h, k) ==
    IF k = 0 THEN coll
    ELSE UpdateOne(UpdateMany(coll, js, h, k - 1), Doc(js[k], h))

\* the records before the first one that has no joke_id: joke["joke_id"] raises there
Storable(js) ==
    LET without == {i \in 1..Len(js) : "joke_id" \notin DOMAIN js[i]}
    IN  IF without = {} THEN Len(js)
        ELSE (CHOOSE i \in without : \A j \in without : i <= j) - 1

\* save_enriched_jokes(..., "mongo"): the credentials are missing or the
\* connection fails, or k records are upserted, and unless they are all of
\* them the next update_one (or joke["joke_id"]) raises
SaveMongo ==
    /\ pc = "enriched"
    /\ \/ /\ pc' = "exit1"
          /\ mongo' = mongo
       \/ \E k \in 0..Storable(enriched) :
             /\ mongo' = UpdateMany(mongo, enriched, heap, k)
             /\ pc' = IF k = Len(enriched) THEN "done" ELSE "exit1"
    /\ UNCHANGED <<jokes, heap, pipeVars, file>>

InitMain ==
    /\ jokes = <<>>
    /\ heap = <<>>
    /\ enriched = <<>>
    /\ enrichment_types = <<>>
    /\ warnings = <<>>
    /\ pc = "start"
    /\ file = NoFile
    /\ mongo = <<>>

NextMain ==
    \/ LoadJokes
    \/ EnrichStep
    \/ SaveFile
    \/ SaveMongo

SpecMain == InitMain /\ [][NextMain]_vars

\* the documents stored under a joke_id
StoredUnder(id) == {i \in 1..Len(mongo) : mongo[i]["joke_id"] = id}

\* the last record of the batch with a joke_id
LatestOf(id) ==
    LET at == {i \in 1..Len(enriched) : Get(enriched[i], "joke_id", "") = id}
    IN  enriched[CHOOSE i \in at : \A j \in at : j <= i]

\* C4: after records with one joke_id have been saved one after the other,
\* the store holds exactly one document for that joke_id, and its content is
\* that of the latest record.
C4_UpsertKeepsLatest ==
    (pc = "done" /\ mongo # <<>>) =>
        \A n \in 1..Len(enriched) :
            LET id == enriched[n]["joke_id"]
            IN  /\ Cardinality(StoredUnder(id)) = 1
                /\ \A i \in StoredUnder(id) : mongo[i] = Doc(LatestOf(id), heap)

\* C9: nothing is written to a sink before every record has been enriched,
\* and a run that fails leaves each sink with none or all of the batch's
\* records.
C9_NoPartialOutput ==
    /\ pc \in {"start", "loaded", "crashed"} => (file = NoFile /\ mongo = <<>>)
    /\ pc = "exit1" =>
          /\ file.lines = <<>> \/ Len(file.lines) = Len(enriched)
          /\ mongo = <<>> \/ mongo = UpdateMany(<<>>, enriched, heap, Len(enriched))

====
